---- MODULE Spec2Model ----
(***************************************************************************)
(* Model of @sky7/db: the MongoDB adapter (src/src/mongo/index.ts), the    *)
(* Firebase adapter (src/unnamed/part_001) and the DB facade               *)
(* (src/src/index.ts).                                                     *)
(*                                                                         *)
(* An async method runs atomically from its call to its first await and    *)
(* from the settlement of the awaited promise to the next await or return, *)
(* so every method is split into one action per such segment.  The calls   *)
(* that are in flight (suspended at an await) are kept in the bag `calls`. *)
(* The driver is the environment: whether client.connect(), client.close() *)
(* or a collection/document call resolves, rejects or throws, and which    *)
(* topology events the client emits, is chosen nondeterministically.       *)
(*                                                                         *)
(* `ret` is the value the step just taken handed back to a caller (a       *)
(* returned OperationResult or a thrown error); every step that returns    *)
(* nothing resets it, so a state with ret.op # "none" is the state at the  *)
(* moment that call returned.  It also records what the step did that no   *)
(* field keeps: the inputs and the log lines of the DB constructor, the    *)
(* calls batchWrite made on the WriteBatch, the snapshot getDocument read.  *)
(*                                                                         *)
(* Spec is the whole library with the Firebase data operations kept        *)
(* abstract; FirebaseSpec follows getDocument, batchWrite and the snapshot *)
(* listeners in detail; ConnectionSpec is the MongoDB connection alone,    *)
(* with the driver settling every promise it handed out; LoggingSpec is    *)
(* ConnectionSpec's steps from every combination of logging options;       *)
(* ConnectBeforeDisconnectSpec is ConnectionSpec with an application that   *)
(* calls connect() only when no disconnect() is pending; MongoSpec is the   *)
(* MongoDB adapter used directly, with its data operations; SdkSpec is the  *)
(* Firebase Admin SDK under any sequence of constructions; FirebaseLifeSpec *)
(* is what may touch a Firebase adapter once it exists; AdaptersSpec is the *)
(* two adapters used directly, without the facade's methods.               *)
(***************************************************************************)
EXTENDS Integers, FiniteSets, Sequences, Bags, TLC

VARIABLES
  phase,     \* "new": DB constructor not yet run; "ready": it returned; "threw"
  options,   \* the DBOptions handed to the DB constructor
  apps,      \* admin.apps.length of the Firebase Admin SDK
  initializeApp, \* the calls made to admin.initializeApp, in order
  mongo,     \* DB.mongo: Undefined, or the MongoDB adapter's fields
  firebase,  \* DB.firebase: Undefined, or the Firebase adapter's fields
  calls,     \* bag of calls suspended at an await
  listeners, \* the snapshot listeners registered with Firestore
  ret        \* what the last step returned or threw to a caller

vars == <<phase, options, apps, initializeApp, mongo, firebase, calls, listeners, ret>>

\* Largest number of calls suspended at an await at the same time, and largest
\* number of data operations among them (a suspended data operation neither
\* reads nor writes the adapters' fields when it resumes).
MaxInFlight == 2
MaxDataOps == 1

\* Largest number of operations handed to one batchWrite().
MaxOperations == 2

\* Largest number of snapshot listeners registered at the same time.
MaxListeners == 2

\* Largest number of calls of admin.initializeApp in one process.
MaxInitializeApp == 2

-----------------------------------------------------------------------------
(* Values *)

Undefined == [undefined |-> TRUE]

\* enum ConnectionStatus
DISCONNECTED == "disconnected"
CONNECTING == "connecting"
CONNECTED == "connected"
RECONNECTING == "reconnecting"
ERROR == "error"
ConnectionStatus == {DISCONNECTED, CONNECTING, CONNECTED, RECONNECTING, ERROR}

\* MongoDB.db : Db | null
NULL == "null"
Db == "Db"

\* What a driver promise can reject with (or a driver call can throw): an
\* Error object, or a value that is not an instance of Error.  Messages are
\* sequences of string parts so that template strings can be concatenated.
DriverError == [isError |-> TRUE, id |-> "driver", message |-> <<"driver failure">>]
NonError == [isError |-> FALSE, id |-> "value", message |-> <<>>]
Rejections == {DriverError, NonError}

\* new Error(message), created by the wrapper itself
NewError(message) == [isError |-> TRUE, id |-> "new", message |-> message]

\* Mutant: the catch block always wraps what it caught in a new Error.
ErrorOf_wraps(error, errorMessage) == NewError(errorMessage)

\* error instanceof Error ? error : new Error(errorMessage)
ErrorOf(error, errorMessage) ==
  IF error.isError THEN error ELSE NewError(errorMessage)

\* error instanceof Error ? error.message : 'Unknown error'
MessageOf(error) ==
  IF error.isError THEN error.message ELSE <<"Unknown error">>

collectionName == "users"
documentPath == "users/john"

\* No call returned in this step.
NoRet == [op |-> "none"]

\* A method returned `result` to `caller` ("none": the application); `driver`
\* is what the awaited driver call did ("resolved", "rejected", or "none" when
\* the method made no driver call), `error` what the driver rejected with.
Returned(op, caller, result, driver, error) ==
  [op |-> op, caller |-> caller, outcome |-> "return", result |-> result,
   driver |-> driver, rejection |-> error]

\* A method of the facade returned `result` to the application; mongoResult is
\* what the MongoDB adapter's method it awaited had returned (Undefined when
\* there is no MongoDB adapter).
FacadeReturned(op, result, mongoResult) ==
  [op |-> op, caller |-> "none", outcome |-> "return", result |-> result,
   driver |-> "none", rejection |-> Undefined, mongoResult |-> mongoResult]

\* A method threw `error` to the application.
Threw(op, error) ==
  [op |-> op, caller |-> "none", outcome |-> "throw", thrown |-> error]

-----------------------------------------------------------------------------
(* MongoDB adapter: legacy methods *)

\* Legacy methods for backward compatibility
LegacyOps ==
  {"MongoDB.addDocument", "MongoDB.getDocuments", "MongoDB.deleteDocument",
   "MongoDB.updateDocument"}

\* the operation each legacy method awaits
MongoDB_legacy_inner(op) ==
  CASE op = "MongoDB.addDocument" -> "MongoDB.insertOne"
    [] op = "MongoDB.getDocuments" -> "MongoDB.find"
    [] op = "MongoDB.deleteDocument" -> "MongoDB.deleteOne"
    [] op = "MongoDB.updateDocument" -> "MongoDB.updateOne"

\* the message of the Error thrown when result.error is not set
MongoDB_legacy_message(op) ==
  CASE op = "MongoDB.addDocument" -> <<"Failed to insert document">>
    [] op = "MongoDB.getDocuments" -> <<"Failed to find documents">>
    [] op = "MongoDB.deleteDocument" -> <<"Failed to delete document">>
    [] op = "MongoDB.updateDocument" -> <<"Failed to update document">>

\* What a legacy method does with the result it awaited:
\* `if (!result.success) throw result.error || new Error(...)`; getDocuments
\* returns `result.data || []`, the others nothing.
MongoDB_legacy_outcome(op, result) ==
  IF ~result.success
    THEN Threw(op, IF "error" \in DOMAIN result THEN result.error
                   ELSE NewError(MongoDB_legacy_message(op)))
    ELSE [op |-> op, caller |-> "none", outcome |-> "return",
          value |-> IF op = "MongoDB.getDocuments" THEN result.data ELSE Undefined]

-----------------------------------------------------------------------------
(* The bag of suspended calls *)

\* the methods that manage the connection; every other method that suspends is
\* a data operation
ConnectionOps == {"MongoDB.connect", "MongoDB.disconnect", "DB.connect", "DB.disconnect"}

Add(bag, frame) == bag (+) SetToBag({frame})
Remove(bag, frame) == bag (-) SetToBag({frame})
InFlight == BagToSet(calls)
CanSuspend == BagCardinality(calls) < MaxInFlight
DataOpsInFlight ==
  BagCardinality([f \in {g \in InFlight : g.op \notin ConnectionOps} |-> calls[f]])
CanSuspendDataOp == CanSuspend /\ DataOpsInFlight < MaxDataOps

\* A call of `op` made by `caller`, suspended on the driver promise.
Awaiting(op, caller) == [op |-> op, caller |-> caller, pc |-> "await"]

\* `caller` was awaiting a method of an adapter, which returned `result`; the
\* caller's continuation has not run yet.
Resuming(caller, result) == [op |-> caller, caller |-> "none", pc |-> "resume", result |-> result]

\* A method returns `result` from the continuation of frame f: to the
\* application, to the legacy method that awaits it (whose continuation uses
\* nothing but that result and runs to its end), or into the frame of the
\* facade method that awaits it.
Return(f, result, driver, error) ==
  /\ ret' = IF f.caller \in LegacyOps
              THEN MongoDB_legacy_outcome(f.caller, result)
              ELSE Returned(f.op, f.caller, result, driver, error)
  /\ calls' = IF f.caller \in {"none"} \cup LegacyOps
                THEN Remove(calls, f)
                ELSE Add(Remove(calls, f), Resuming(f.caller, result))

\* A method returns `result` without having suspended.
ReturnNow(op, caller, result, driver, error) ==
  /\ ret' = IF caller \in LegacyOps
              THEN MongoDB_legacy_outcome(caller, result)
              ELSE Returned(op, caller, result, driver, error)
  /\ calls' = IF caller \in {"none"} \cup LegacyOps
                THEN calls
                ELSE Add(calls, Resuming(caller, result))

-----------------------------------------------------------------------------
(* Adapters' state *)

\* class MongoDB field initialisers
MongoDB_new == [connectionStatus |-> DISCONNECTED, db |-> NULL, reconnectAttempts |-> 0]

maxReconnectAttempts == 5

MongoDB_getConnectionStatus(m) == m.connectionStatus

MongoDB_isConnected(m) == m.connectionStatus = CONNECTED /\ m.db # NULL

Firebase_getConnectionStatus(f) == f.connectionStatus

Firebase_isConnected(f) == f.connectionStatus = CONNECTED /\ f.isInitialized

-----------------------------------------------------------------------------
(* DB constructor *)

\* interface DBOptions: mongodb?, firebase? and logger? are given or not;
\* enableLogging? is true, false or not given.
EnableLogging == {"true", "false", "undefined"}
DBOptions ==
  [mongodb : BOOLEAN, firebase : BOOLEAN, logger : BOOLEAN, enableLogging : EnableLogging]

\* The options that leave logging alone: no logger, no enableLogging.
DefaultLoggingOptions ==
  {o \in DBOptions : ~o.logger /\ o.enableLogging = "undefined"}

\* this.logger = options.logger || this.createDefaultLogger(): the sink the
\* log calls go to, the application's logger or the console.
DB_logger(opts) == IF opts.logger THEN "custom" ELSE "console"

\* logger.info(message) / logger.error(message, error)
Log(level, message) == [level |-> level, message |-> message]

\* Mutant: the constructor does not validate its options.
DB_validate_skipped(opts) == TRUE

\* if (!options.mongodb && !options.firebase) throw ...: TRUE when the options pass
DB_validate(opts) == opts.mongodb \/ opts.firebase

\* Mutant: the catch block around `new MongoDB` / `new Firebase` logs the
\* error and goes on.
DB_constructor_catch_swallows(threw) == FALSE

\* catch (error) { this.logger.error(...); throw error; }: TRUE when the
\* constructor of the DB throws because the adapter's did
DB_constructor_catch(threw) == threw

\* new MongoDB(options.mongodb, logger): the field initialisers; new
\* MongoClient(uri, clientOptions) returns the client or throws.
MongoDB_constructor(driver) ==
  IF driver = "ok" THEN MongoDB_new ELSE Undefined

\* Mutant: the constructor forgets `this.isInitialized = true`.
Firebase_constructor_uninitialized(sdk) ==
  IF sdk = "ok"
    THEN [connectionStatus |-> CONNECTED, isInitialized |-> FALSE]
    ELSE Undefined

\* new Firebase(options.firebase, logger): initializeApp is called only when no
\* app is registered; initializeApp or admin.firestore() may throw, and then
\* the constructor rethrows.
Firebase_constructor(sdk) ==
  IF sdk = "ok"
    THEN [connectionStatus |-> CONNECTED, isInitialized |-> TRUE]
    ELSE Undefined

Firebase_apps(n, sdk) ==
  IF n = 0 /\ sdk # "initializeApp throws" THEN 1 ELSE n

\* interface FirebaseOptions (serviceAccount, databaseURL, storageBucket): the
\* configurations of two projects; the DB hands its options.firebase on.
FirebaseOptions == {"projectA", "projectB"}
DB_firebaseOptions == "projectA"

\* Mutant: the constructor initialises the SDK without looking at admin.apps.
Firebase_initializes_always(n) == TRUE

\* if (!admin.apps.length): TRUE when the constructor calls initializeApp
Firebase_initializes(n) == n = 0

\* admin.initializeApp({credential: cert(serviceAccount), databaseURL,
\* storageBucket}): the call, with the options passed and whether it threw
InitializeAppCall(config, sdk) ==
  [options |-> config, threw |-> sdk = "initializeApp throws"]

\* the calls of admin.initializeApp after a constructor ran with `config`
Firebase_initializeApp(called, n, config, sdk) ==
  IF Firebase_initializes(n) THEN Append(called, InitializeAppCall(config, sdk)) ELSE called

\* What the SDK does in a constructor: initializeApp can throw only when it
\* is called, and is called at most MaxInitializeApp times.
SdkOutcomes(n, called) ==
  {sdk \in {"ok", "initializeApp throws", "firestore throws"} :
     /\ sdk = "initializeApp throws" => Firebase_initializes(n)
     /\ Firebase_initializes(n) => Len(called) < MaxInitializeApp}

\* What `new Firebase(options)` handed back to the application: the adapter
\* or the error it threw.
FirebaseConstructed(config, sdk) ==
  [op |-> "Firebase.constructor", caller |-> "none",
   outcome |-> IF Firebase_constructor(sdk) = Undefined THEN "throw" ELSE "return",
   thrown |-> IF Firebase_constructor(sdk) = Undefined THEN DriverError ELSE Undefined,
   adapter |-> Firebase_constructor(sdk), options |-> config, sdk |-> sdk]

\* new Firebase(options, logger) by the application itself (the class is
\* exported): one more adapter on the same SDK, at any time.
Firebase_new ==
  \E config \in FirebaseOptions, sdk \in SdkOutcomes(apps, initializeApp) :
    /\ apps' = Firebase_apps(apps, sdk)
    /\ initializeApp' = Firebase_initializeApp(initializeApp, apps, config, sdk)
    /\ ret' = FirebaseConstructed(config, sdk)
    /\ UNCHANGED <<listeners, phase, options, mongo, firebase, calls>>

\* What `new DB(options)` handed back: the DB (outcome "return") or the error
\* it threw; MongoClient and sdk are what the drivers did, logger the sink of
\* the log calls the constructors made, logged those calls in order.
Constructed(outcome, error, driver, sdk, logger, logged) ==
  [op |-> "DB.constructor", caller |-> "none", outcome |-> outcome, thrown |-> error,
   MongoClient |-> driver, sdk |-> sdk, logger |-> logger, logged |-> logged]

DB_constructor ==
  /\ phase = "new"
  /\ UNCHANGED <<options, calls, listeners>>
  /\ IF ~DB_validate(options)
       THEN /\ phase' = "threw"
            /\ ret' = Constructed("throw",
                        NewError(<<"At least one database configuration (mongodb or firebase) must be provided">>),
                        "none", "none", "none", <<>>)
            /\ UNCHANGED <<apps, initializeApp, mongo, firebase>>
       ELSE \E driver \in {"ok", "MongoClient throws"},
               sdk \in {"ok", "initializeApp throws", "firestore throws"} :
              LET m == IF options.mongodb THEN MongoDB_constructor(driver) ELSE Undefined
                  mongoThrew == DB_constructor_catch(options.mongodb /\ m = Undefined)
                  runFirebase == options.firebase /\ ~mongoThrew
                  f == IF runFirebase THEN Firebase_constructor(sdk) ELSE Undefined
                  firebaseThrew == DB_constructor_catch(runFirebase /\ f = Undefined)
                  mongoLogged ==
                    IF ~options.mongodb THEN <<>>
                    ELSE IF m = Undefined
                      THEN <<Log("error", <<"Failed to create MongoDB instance:">>)>>
                      ELSE <<Log("info", <<"MongoDB instance created successfully">>)>>
                  firebaseLogged ==
                    IF ~runFirebase THEN <<>>
                    ELSE IF f = Undefined
                      THEN <<Log("error", <<"Failed to initialize Firebase:">>),
                             Log("error", <<"Failed to create Firebase instance:">>)>>
                      ELSE <<Log("info", <<"Firebase initialized successfully">>),
                             Log("info", <<"Firebase instance created successfully">>)>>
              IN  /\ options.mongodb \/ driver = "ok"
                  /\ runFirebase \/ sdk = "ok"
                  /\ runFirebase => sdk \in SdkOutcomes(apps, initializeApp)
                  /\ apps' = IF runFirebase THEN Firebase_apps(apps, sdk) ELSE apps
                  /\ initializeApp' =
                       IF runFirebase
                         THEN Firebase_initializeApp(initializeApp, apps, DB_firebaseOptions, sdk)
                         ELSE initializeApp
                  /\ IF mongoThrew \/ firebaseThrew
                       THEN /\ phase' = "threw"
                            /\ mongo' = Undefined
                            /\ firebase' = Undefined
                            /\ ret' = Constructed("throw", DriverError, driver, sdk,
                                                  DB_logger(options), mongoLogged \o firebaseLogged)
                       ELSE /\ phase' = "ready"
                            /\ mongo' = m
                            /\ firebase' = f
                            /\ ret' = Constructed("return", Undefined, driver, sdk,
                                                  DB_logger(options), mongoLogged \o firebaseLogged)

-----------------------------------------------------------------------------
(* MongoDB adapter: connection *)

\* connect(), up to `await this.client.connect()`
MongoDB_connect(caller) ==
  /\ phase = "ready" /\ mongo # Undefined /\ CanSuspend
  /\ mongo' = [mongo EXCEPT !.connectionStatus = CONNECTING]
  /\ calls' = Add(calls, Awaiting("MongoDB.connect", caller))
  /\ ret' = NoRet
  /\ UNCHANGED <<listeners, initializeApp, phase, options, apps, firebase>>

\* Mutant: connect() forgets `this.db = this.client.db(this.dbName)`.
MongoDB_connect_try_nodb(m) ==
  [m EXCEPT !.connectionStatus = CONNECTED, !.reconnectAttempts = 0]

\* connect(), the assignments after `await this.client.connect()`;
\* client.db(dbName) hands back a Db handle
MongoDB_connect_try(m) ==
  [m EXCEPT !.db = Db, !.connectionStatus = CONNECTED, !.reconnectAttempts = 0]

\* connect(), after client.connect() resolved
MongoDB_connect_resolved ==
  \E f \in InFlight :
    /\ f.op = "MongoDB.connect" /\ f.pc = "await"
    /\ mongo' = MongoDB_connect_try(mongo)
    /\ Return(f, [success |-> TRUE, message |-> <<"Connected to MongoDB">>],
              "resolved", Undefined)
    /\ UNCHANGED <<listeners, initializeApp, phase, options, apps, firebase>>

\* Mutant: the catch block of connect() leaves the status as it is.
MongoDB_connect_failed_keeps(m) == m

\* connect(), catch block: the adapter's fields as it leaves them
MongoDB_connect_failed(m) == [m EXCEPT !.connectionStatus = ERROR]

\* connect(), catch block: the result
MongoDB_connect_catch(error) ==
  [success |-> FALSE,
   error |-> ErrorOf(error, <<"Failed to connect to MongoDB: ">> \o MessageOf(error))]

\* connect(), after client.connect() rejected
MongoDB_connect_rejected ==
  \E f \in InFlight, error \in Rejections :
    /\ f.op = "MongoDB.connect" /\ f.pc = "await"
    /\ mongo' = MongoDB_connect_failed(mongo)
    /\ Return(f, MongoDB_connect_catch(error), "rejected", error)
    /\ UNCHANGED <<listeners, initializeApp, phase, options, apps, firebase>>

\* disconnect(), up to `await this.client.close()`
MongoDB_disconnect(caller) ==
  /\ phase = "ready" /\ mongo # Undefined /\ CanSuspend
  /\ calls' = Add(calls, Awaiting("MongoDB.disconnect", caller))
  /\ ret' = NoRet
  /\ UNCHANGED <<listeners, initializeApp, phase, options, apps, mongo, firebase>>

\* Mutant: disconnect() forgets `this.connectionStatus = DISCONNECTED`.
MongoDB_disconnect_try_keepsstatus(m) == [m EXCEPT !.db = NULL]

\* Mutant: disconnect() forgets `this.db = null`.
MongoDB_disconnect_try_keepsdb(m) == [m EXCEPT !.connectionStatus = DISCONNECTED]

\* disconnect(), the assignments after `await this.client.close()`
MongoDB_disconnect_try(m) ==
  [m EXCEPT !.connectionStatus = DISCONNECTED, !.db = NULL]

\* disconnect(), after client.close() resolved
MongoDB_disconnect_resolved ==
  \E f \in InFlight :
    /\ f.op = "MongoDB.disconnect" /\ f.pc = "await"
    /\ mongo' = MongoDB_disconnect_try(mongo)
    /\ Return(f, [success |-> TRUE, message |-> <<"Disconnected from MongoDB">>],
              "resolved", Undefined)
    /\ UNCHANGED <<listeners, initializeApp, phase, options, apps, firebase>>

\* Mutant: the catch block of disconnect() sets the status to ERROR, as the
\* catch block of connect() does.
MongoDB_disconnect_failed_error(m) == [m EXCEPT !.connectionStatus = ERROR]

\* disconnect(), catch block: the adapter's fields as it leaves them
MongoDB_disconnect_failed(m) == m

\* Mutant: the catch block of disconnect() returns the text as `message` and
\* no error.
MongoDB_disconnect_catch_message(error) ==
  [success |-> FALSE,
   message |-> <<"Error disconnecting from MongoDB: ">> \o MessageOf(error)]

\* disconnect(), catch block: the result
MongoDB_disconnect_catch(error) ==
  [success |-> FALSE,
   error |-> ErrorOf(error, <<"Error disconnecting from MongoDB: ">> \o MessageOf(error))]

\* disconnect(), after client.close() rejected
MongoDB_disconnect_rejected ==
  \E f \in InFlight, error \in Rejections :
    /\ f.op = "MongoDB.disconnect" /\ f.pc = "await"
    /\ mongo' = MongoDB_disconnect_failed(mongo)
    /\ Return(f, MongoDB_disconnect_catch(error), "rejected", error)
    /\ UNCHANGED <<listeners, initializeApp, phase, options, apps, firebase>>

\* Mutant: the serverClosed handler assigns a status that is not in the enum.
on_serverClosed_closed(m) == [m EXCEPT !.connectionStatus = "closed"]

\* Mutant: the error handler starts a reconnection attempt.
on_error_reconnecting(m) ==
  IF m.reconnectAttempts < maxReconnectAttempts
    THEN [m EXCEPT !.connectionStatus = RECONNECTING, !.reconnectAttempts = @ + 1]
    ELSE [m EXCEPT !.connectionStatus = ERROR]

\* Mutant: the serverOpening handler marks the adapter connected.
on_serverOpening_connected(m) == [m EXCEPT !.connectionStatus = CONNECTED]

\* Mutant: the connectionPoolClosed handler marks the adapter disconnected.
on_connectionPoolClosed_disconnects(m) == [m EXCEPT !.connectionStatus = DISCONNECTED]

\* setupEventListeners(): the handlers of the client's events
on_connectionPoolCreated(m) == m
on_connectionPoolClosed(m) == m
on_serverOpening(m) == [m EXCEPT !.connectionStatus = CONNECTING]
on_serverClosed(m) == [m EXCEPT !.connectionStatus = DISCONNECTED]
on_error(m) == [m EXCEPT !.connectionStatus = ERROR]

ClientEvents ==
  {"connectionPoolCreated", "connectionPoolClosed", "serverOpening", "serverClosed", "error"}

setupEventListeners(event, m) ==
  CASE event = "connectionPoolCreated" -> on_connectionPoolCreated(m)
    [] event = "connectionPoolClosed" -> on_connectionPoolClosed(m)
    [] event = "serverOpening" -> on_serverOpening(m)
    [] event = "serverClosed" -> on_serverClosed(m)
    [] event = "error" -> on_error(m)

\* A handler ran: nothing is handed back to a caller; `event` is the event
\* the client emitted.
Emitted(event) == [op |-> "none", event |-> event]

\* The client emits an event; the registered handler runs.  With `observed`
\* the step also records which event it was.
ClientEmits(observed) ==
  \E event \in ClientEvents :
    /\ phase = "ready" /\ mongo # Undefined
    /\ mongo' = setupEventListeners(event, mongo)
    /\ ret' = IF observed THEN Emitted(event) ELSE NoRet
    /\ UNCHANGED <<listeners, initializeApp, phase, options, apps, firebase, calls>>

-----------------------------------------------------------------------------
(* MongoDB adapter: data operations *)

MongoDataOps ==
  {"MongoDB.insertOne", "MongoDB.insertMany", "MongoDB.find", "MongoDB.findOne",
   "MongoDB.updateOne", "MongoDB.updateMany", "MongoDB.deleteOne",
   "MongoDB.deleteMany", "MongoDB.countDocuments", "MongoDB.createIndex"}

\* const errorMessage = `Error ... ${collectionName}` of each catch block
MongoDB_errorMessage(op) ==
  CASE op = "MongoDB.insertOne" -> <<"Error inserting document into ", collectionName>>
    [] op = "MongoDB.insertMany" -> <<"Error inserting documents into ", collectionName>>
    [] op = "MongoDB.find" -> <<"Error finding documents in ", collectionName>>
    [] op = "MongoDB.findOne" -> <<"Error finding document in ", collectionName>>
    [] op = "MongoDB.updateOne" -> <<"Error updating document in ", collectionName>>
    [] op = "MongoDB.updateMany" -> <<"Error updating documents in ", collectionName>>
    [] op = "MongoDB.deleteOne" -> <<"Error deleting document from ", collectionName>>
    [] op = "MongoDB.deleteMany" -> <<"Error deleting documents from ", collectionName>>
    [] op = "MongoDB.countDocuments" -> <<"Error counting documents in ", collectionName>>
    [] op = "MongoDB.createIndex" -> <<"Error creating index on ", collectionName>>

\* The catch block shared by the data operations.
MongoDB_catch(op, error) ==
  [success |-> FALSE, error |-> ErrorOf(error, MongoDB_errorMessage(op))]

\* What a data operation returns when the driver call resolved: the driver's
\* result for that operation, mapped to the wrapper's result type.
MongoDB_success(op) ==
  [success |-> TRUE, data |-> [resultOf |-> op]]

\* Mutant: the operation has no guard.
MongoDB_guard_missing(m) == TRUE

\* Mutant: the guard tests only the db handle, as getCollection() does.
MongoDB_guard_dbonly(m) == m.db # NULL

\* The guard `if (!this.isConnected()) throw new Error('Not connected to MongoDB')`:
\* TRUE when the operation may go on to the driver.
MongoDB_guard(m) == MongoDB_isConnected(m)

\* getCollection(collectionName): the collection, or the error it throws
MongoDB_getCollection(m) ==
  IF m.db = NULL
    THEN [threw |-> TRUE,
          error |-> NewError(<<"Not connected to MongoDB. Call connect() first.">>)]
    ELSE [threw |-> FALSE, collection |-> collectionName]

\* A data operation up to its await: the guard, getCollection, the driver call
\* (which hands back a promise).
MongoDB_dataOp(op, caller) ==
  /\ phase = "ready" /\ mongo # Undefined
  /\ UNCHANGED <<listeners, initializeApp, phase, options, apps, mongo, firebase>>
  /\ IF ~MongoDB_guard(mongo)
       THEN ReturnNow(op, caller,
                      MongoDB_catch(op, NewError(<<"Not connected to MongoDB">>)),
                      "none", Undefined)
       ELSE IF MongoDB_getCollection(mongo).threw
         THEN ReturnNow(op, caller,
                        MongoDB_catch(op, MongoDB_getCollection(mongo).error),
                        "none", Undefined)
         ELSE /\ CanSuspendDataOp
              /\ calls' = Add(calls, Awaiting(op, caller))
              /\ ret' = NoRet

\* A data operation after the driver promise resolved
MongoDB_dataOp_resolved ==
  \E f \in InFlight :
    /\ f.op \in MongoDataOps /\ f.pc = "await"
    /\ Return(f, MongoDB_success(f.op), "resolved", Undefined)
    /\ UNCHANGED <<listeners, initializeApp, phase, options, apps, mongo, firebase>>

\* A data operation after the driver promise rejected
MongoDB_dataOp_rejected ==
  \E f \in InFlight, error \in Rejections :
    /\ f.op \in MongoDataOps /\ f.pc = "await"
    /\ Return(f, MongoDB_catch(f.op, error), "rejected", error)
    /\ UNCHANGED <<listeners, initializeApp, phase, options, apps, mongo, firebase>>

\* The public getCollection(collectionName), called by the application.
MongoDB_getCollection_call ==
  /\ phase = "ready" /\ mongo # Undefined
  /\ ret' = IF MongoDB_getCollection(mongo).threw
              THEN Threw("MongoDB.getCollection", MongoDB_getCollection(mongo).error)
              ELSE [op |-> "MongoDB.getCollection", caller |-> "none", outcome |-> "return",
                    value |-> MongoDB_getCollection(mongo).collection]
  /\ UNCHANGED <<listeners, initializeApp, phase, options, apps, mongo, firebase, calls>>

\* addDocument / getDocuments / deleteDocument / updateDocument, up to the
\* await of the operation they wrap
MongoDB_legacy ==
  \E op \in LegacyOps : MongoDB_dataOp(MongoDB_legacy_inner(op), op)

-----------------------------------------------------------------------------
(* Firebase adapter: data operations *)

FirebaseDataOps ==
  {"Firebase.getDocument", "Firebase.setDocument", "Firebase.updateDocument",
   "Firebase.deleteDocument", "Firebase.addDocument", "Firebase.getCollection",
   "Firebase.batchWrite", "Firebase.runTransaction"}

Firebase_errorMessage(op) ==
  CASE op = "Firebase.getDocument" -> <<"Error getting document ", documentPath>>
    [] op = "Firebase.setDocument" -> <<"Error setting document ", documentPath>>
    [] op = "Firebase.updateDocument" -> <<"Error updating document ", documentPath>>
    [] op = "Firebase.deleteDocument" -> <<"Error deleting document ", documentPath>>
    [] op = "Firebase.addDocument" -> <<"Error adding document to ", collectionName>>
    [] op = "Firebase.getCollection" -> <<"Error getting collection ", collectionName>>
    [] op = "Firebase.batchWrite" -> <<"Error performing batch write">>
    [] op = "Firebase.runTransaction" -> <<"Error running transaction">>

\* The catch block shared by the data operations.
Firebase_catch(op, error) ==
  [success |-> FALSE, error |-> ErrorOf(error, Firebase_errorMessage(op))]

\* What a data operation returns when the SDK promise resolved.
Firebase_success(op) ==
  CASE op = "Firebase.setDocument" ->
         [success |-> TRUE, message |-> <<"Document set successfully">>]
    [] op = "Firebase.updateDocument" ->
         [success |-> TRUE, message |-> <<"Document updated successfully">>]
    [] op = "Firebase.deleteDocument" ->
         [success |-> TRUE, message |-> <<"Document deleted successfully">>]
    [] op = "Firebase.batchWrite" ->
         [success |-> TRUE, message |-> <<"Batch write completed successfully">>]
    [] OTHER -> [success |-> TRUE, data |-> [resultOf |-> op]]

\* The guard `if (!this.isConnected()) throw new Error('Firebase not initialized')`
Firebase_guard(f) == Firebase_isConnected(f)

\* The operations handed to batchWrite(): any sequence of set, update and
\* delete of at most MaxOperations operations.
OperationTypes == {"set", "update", "delete"}
BatchOperations == UNION {[1..n -> OperationTypes] : n \in 0..MaxOperations}

\* Mutant: the cases of the switch have no `break` and fall through.
Firebase_batch_call_fallthrough(type) ==
  CASE type = "set" -> <<[method |-> "set"], [method |-> "update"], [method |-> "delete"]>>
    [] type = "update" -> <<[method |-> "update"], [method |-> "delete"]>>
    [] type = "delete" -> <<[method |-> "delete"]>>

\* switch (operation.type): the calls made on the batch for one operation
Firebase_batch_call(type) ==
  CASE type = "set" -> <<[method |-> "set"]>>
    [] type = "update" -> <<[method |-> "update"]>>
    [] type = "delete" -> <<[method |-> "delete"]>>

\* for (const operation of operations) { ... }: the calls made on the batch by
\* the first n iterations
RECURSIVE Firebase_batch_queue(_, _)
Firebase_batch_queue(operations, n) ==
  IF n = 0 THEN <<>>
  ELSE Firebase_batch_queue(operations, n - 1) \o Firebase_batch_call(operations[n])

\* What batchWrite() did with the batch up to its await: the calls it queued
\* and how often it called commit().  throwsAt is the iteration whose batch
\* call threw (0: none did), which ends the loop and skips the commit.
Firebase_batch(operations, throwsAt) ==
  [operations |-> operations,
   threw |-> throwsAt > 0,
   queued |-> Firebase_batch_queue(operations,
                                   IF throwsAt > 0 THEN throwsAt ELSE Len(operations)),
   commits |-> IF throwsAt > 0 THEN 0 ELSE 1]

\* batchWrite(operations) up to `await batch.commit()`; the step records what
\* it did with the batch
Firebase_batchWrite ==
  \E operations \in BatchOperations, throwsAt \in 0..MaxOperations :
    /\ phase = "ready" /\ firebase # Undefined
    /\ throwsAt <= Len(operations)
    /\ UNCHANGED <<listeners, initializeApp, phase, options, apps, mongo, firebase>>
    /\ IF ~Firebase_guard(firebase)
         THEN ReturnNow("Firebase.batchWrite", "none",
                        Firebase_catch("Firebase.batchWrite",
                                       NewError(<<"Firebase not initialized">>)),
                        "none", Undefined)
         ELSE IF throwsAt > 0
           THEN /\ calls' = calls
                /\ ret' = Returned("Firebase.batchWrite", "none",
                                   Firebase_catch("Firebase.batchWrite", DriverError),
                                   "threw", DriverError)
                            @@ [batchWrite |-> Firebase_batch(operations, throwsAt)]
           ELSE /\ CanSuspendDataOp
                /\ calls' = Add(calls, Awaiting("Firebase.batchWrite", "none"))
                /\ ret' = NoRet @@ [batchWrite |-> Firebase_batch(operations, throwsAt)]

\* One of the data operations `ops` up to its await: the guard, then the SDK
\* call that hands back a promise
Firebase_dataOp(ops) ==
  \E op \in ops :
    /\ phase = "ready" /\ firebase # Undefined
    /\ UNCHANGED <<listeners, initializeApp, phase, options, apps, mongo, firebase>>
    /\ IF ~Firebase_guard(firebase)
         THEN ReturnNow(op, "none",
                        Firebase_catch(op, NewError(<<"Firebase not initialized">>)),
                        "none", Undefined)
         ELSE /\ CanSuspendDataOp
              /\ calls' = Add(calls, Awaiting(op, "none"))
              /\ ret' = NoRet

\* data: null
Null == [null |-> TRUE]

\* The fields a stored document may hold, and the DocumentSnapshots that
\* documentRef.get() may resolve with: of a document that does not exist, or
\* of one stored under the id "john" with any of these fields.
FieldNames == {"id", "name"}
FieldValues == {"john", "x"}
StoredFields == UNION {[names -> FieldValues] : names \in SUBSET FieldNames}
Snapshots ==
  {[exists |-> FALSE, id |-> "john", data |-> Undefined]}
    \cup {[exists |-> TRUE, id |-> "john", data |-> fields] : fields \in StoredFields}

\* { ...base, ...more }: the keys of both, those of `more` winning
Spread(base, more) ==
  [k \in DOMAIN base \cup DOMAIN more |-> IF k \in DOMAIN more THEN more[k] ELSE base[k]]

\* getDocument(), after `await documentRef.get()`:
\* { id: snapshot.id, ...snapshot.data() } or null
Firebase_getDocument_try(snapshot) ==
  IF snapshot.exists
    THEN [success |-> TRUE, data |-> Spread([id |-> snapshot.id], snapshot.data)]
    ELSE [success |-> TRUE, data |-> Null]

\* getDocument(), after documentRef.get() resolved; the step hands back the
\* result and, for the record, the snapshot it was computed from
Firebase_getDocument_resolved ==
  \E f \in InFlight, snapshot \in Snapshots :
    /\ f.op = "Firebase.getDocument" /\ f.pc = "await"
    /\ calls' = Remove(calls, f)
    /\ ret' = Returned(f.op, f.caller, Firebase_getDocument_try(snapshot), "resolved", Undefined)
                @@ [snapshot |-> snapshot]
    /\ UNCHANGED <<listeners, initializeApp, phase, options, apps, mongo, firebase>>

\* One of the data operations `ops` after the SDK promise resolved
Firebase_dataOp_resolved(ops) ==
  \E f \in InFlight :
    /\ f.op \in ops /\ f.pc = "await"
    /\ Return(f, Firebase_success(f.op), "resolved", Undefined)
    /\ UNCHANGED <<listeners, initializeApp, phase, options, apps, mongo, firebase>>

\* Mutant: the catch block of a data operation sets the status to ERROR, as
\* the catch block of the constructor does.
Firebase_dataOp_rejected_error ==
  \E f \in InFlight, error \in Rejections :
    /\ f.op \in FirebaseDataOps /\ f.pc = "await"
    /\ firebase' = [firebase EXCEPT !.connectionStatus = ERROR]
    /\ Return(f, Firebase_catch(f.op, error), "rejected", error)
    /\ UNCHANGED <<listeners, initializeApp, phase, options, apps, mongo>>

\* A data operation after the SDK promise rejected
Firebase_dataOp_rejected ==
  \E f \in InFlight, error \in Rejections :
    /\ f.op \in FirebaseDataOps /\ f.pc = "await"
    /\ Return(f, Firebase_catch(f.op, error), "rejected", error)
    /\ UNCHANGED <<listeners, initializeApp, phase, options, apps, mongo, firebase>>

-----------------------------------------------------------------------------
(* Firebase adapter: real-time listeners *)

ListenOps == {"Firebase.listenDocument", "Firebase.listenCollection"}

\* `() => {}`, the empty unsubscribe function
NoOp == [fn |-> "noop"]

\* the unsubscribe function that onSnapshot() handed back for listener l
DriverUnsubscribe(l) == [fn |-> "unsubscribe", listener |-> l]

\* The listener that onSnapshot() registers for a call of `op`: the driver
\* gives each registration an identity of its own.
NewListener(op) ==
  [op |-> op, id |-> CHOOSE i \in 1..MaxListeners : \A l \in listeners : l.id # i]

\* The changes of a QuerySnapshot: none, or one document added, modified or
\* removed.
DocChanges ==
  {<<>>} \cup {<<[type |-> type, doc |-> [id |-> "john", data |-> fields]]>> :
                 type \in {"added", "modified", "removed"}, fields \in StoredFields}

\* snapshot.docChanges().forEach(...): the documents of the changes of one type
Firebase_changed(changes, type) ==
  LET selected == SelectSeq(changes, LAMBDA change : change.type = type)
  IN  [i \in 1..Len(selected) |->
         Spread([id |-> selected[i].doc.id], selected[i].doc.data)]

\* What the snapshot handler of listenCollection hands to the callback.
Firebase_listenCollection_next(changes) ==
  [added |-> Firebase_changed(changes, "added"),
   modified |-> Firebase_changed(changes, "modified"),
   removed |-> Firebase_changed(changes, "removed")]

\* What the snapshot handler of listenDocument hands to the callback.
Firebase_listenDocument_next(snapshot) ==
  IF snapshot.exists THEN Spread([id |-> snapshot.id], snapshot.data) ELSE Null

\* Mutant: the catch block of a listen method rethrows.
Firebase_listen_catch_rethrows(op, sdk) ==
  [op |-> op, caller |-> "none", outcome |-> "throw", sdk |-> sdk, thrown |-> DriverError]

\* catch (error) { this.logger.error(...); return () => {}; }
Firebase_listen_catch(op, sdk) ==
  [op |-> op, caller |-> "none", outcome |-> "return", sdk |-> sdk, value |-> NoOp]

\* listenDocument() / listenCollection(): synchronous, so one step.  sdk is
\* what the SDK did: it registered the listener, or building the reference or
\* query or onSnapshot() itself threw ("none": the guard threw first).
Firebase_listen ==
  \E op \in ListenOps :
    /\ phase = "ready" /\ firebase # Undefined
    /\ UNCHANGED <<initializeApp, phase, options, apps, mongo, firebase, calls>>
    /\ IF ~Firebase_guard(firebase)
         THEN /\ ret' = Firebase_listen_catch(op, "none")
              /\ listeners' = listeners
         ELSE \/ /\ ret' = Firebase_listen_catch(op, "throws")
                 /\ listeners' = listeners
              \/ /\ Cardinality(listeners) < MaxListeners
                 /\ listeners' = listeners \cup {NewListener(op)}
                 /\ ret' = [op |-> op, caller |-> "none", outcome |-> "return",
                            sdk |-> "registered",
                            value |-> DriverUnsubscribe(NewListener(op))]

\* Firestore delivers a snapshot to a registered listener: the handler hands
\* the callback what it computed from it.
Firebase_onSnapshot ==
  \E l \in listeners :
    /\ UNCHANGED <<listeners, initializeApp, phase, options, apps, mongo, firebase, calls>>
    /\ IF l.op = "Firebase.listenDocument"
         THEN \E snapshot \in Snapshots :
                ret' = [op |-> "callback", listener |-> l,
                        data |-> Firebase_listenDocument_next(snapshot)]
         ELSE \E changes \in DocChanges :
                ret' = [op |-> "callback", listener |-> l,
                        data |-> Firebase_listenCollection_next(changes)]

\* Firestore reports an error to a registered listener: the handler logs it
\* and does not call the callback.
Firebase_onSnapshot_error ==
  \E l \in listeners :
    /\ ret' = [op |-> "onSnapshot.error", listener |-> l,
               logged |-> <<Log("error", <<"Error listening to ">>)>>]
    /\ UNCHANGED <<listeners, initializeApp, phase, options, apps, mongo, firebase, calls>>

\* The application calls the unsubscribe function of a registered listener.
Firebase_unsubscribe ==
  \E l \in listeners :
    /\ listeners' = listeners \ {l}
    /\ ret' = [op |-> "unsubscribe", listener |-> l]
    /\ UNCHANGED <<initializeApp, phase, options, apps, mongo, firebase, calls>>

-----------------------------------------------------------------------------
(* DB facade *)

\* errors.join(', ')
RECURSIVE join(_)
join(errors) ==
  IF Len(errors) = 0 THEN <<>>
  ELSE IF Len(errors) = 1 THEN errors[1]
  ELSE errors[1] \o <<", ">> \o join(Tail(errors))

\* a || b on message strings
OrElse(message, default) ==
  IF message = <<>> \/ message = <<"">> THEN default ELSE message

\* result.error?.message
ErrorMessage(result) ==
  IF "error" \in DOMAIN result THEN result.error.message ELSE <<>>

\* Mutant: results.mongodb is assigned only when the adapter succeeded.
DB_results_truthy(hasMongo, mongodb, hasFirebase, fb) ==
  CASE hasMongo /\ mongodb /\ hasFirebase -> [mongodb |-> mongodb, firebase |-> fb]
    [] hasMongo /\ mongodb /\ ~hasFirebase -> [mongodb |-> mongodb]
    [] ~(hasMongo /\ mongodb) /\ hasFirebase -> [firebase |-> fb]
    [] OTHER -> <<>>

\* The object `results` of connect() and disconnect(): a key per adapter that
\* is present, none for one that is not.
DB_results(hasMongo, mongodb, hasFirebase, fb) ==
  CASE hasMongo /\ hasFirebase -> [mongodb |-> mongodb, firebase |-> fb]
    [] hasMongo /\ ~hasFirebase -> [mongodb |-> mongodb]
    [] ~hasMongo /\ hasFirebase -> [firebase |-> fb]
    [] OTHER -> <<>>

\* Mutant: some() instead of every().
every_some(results) == \E k \in DOMAIN results : results[k] = TRUE

\* Object.values(results).every(status => status === true)
every(results) == \A k \in DOMAIN results : results[k] = TRUE

\* connect(), from the end of the MongoDB block to the return; mongoResult is
\* Undefined when this.mongo is not set.
DB_connect_finish(mongoResult, f) ==
  LET hasMongo == mongoResult # Undefined
      hasFirebase == f # Undefined
      results == DB_results(hasMongo, hasMongo /\ mongoResult.success,
                            hasFirebase, hasFirebase /\ Firebase_isConnected(f))
      mongoErrors ==
        IF hasMongo /\ ~mongoResult.success
          THEN << <<"MongoDB: ">> \o OrElse(ErrorMessage(mongoResult), <<"Connection failed">>) >>
          ELSE <<>>
      firebaseErrors ==
        IF hasFirebase /\ ~results.firebase
          THEN << <<"Firebase: Connection failed during initialization">> >>
          ELSE <<>>
      errors == mongoErrors \o firebaseErrors
      allConnected == every(results)
  IN  IF allConnected
        THEN [success |-> TRUE, data |-> results]
        ELSE [success |-> FALSE,
              error |-> NewError(<<"Some databases failed to connect: ">> \o join(errors)),
              data |-> results]

\* DB.connect(): with a MongoDB adapter, up to `await this.mongo.connect()`;
\* without one, the whole method.
DB_connect ==
  /\ phase = "ready"
  /\ IF mongo # Undefined
       THEN MongoDB_connect("DB.connect")
       ELSE /\ ret' = FacadeReturned("DB.connect", DB_connect_finish(Undefined, firebase),
                                     Undefined)
            /\ UNCHANGED <<listeners, initializeApp, phase, options, apps, mongo, firebase, calls>>

\* DB.connect(), after `await this.mongo.connect()`
DB_connect_resume ==
  \E f \in InFlight :
    /\ f.op = "DB.connect" /\ f.pc = "resume"
    /\ ret' = FacadeReturned("DB.connect", DB_connect_finish(f.result, firebase), f.result)
    /\ calls' = Remove(calls, f)
    /\ UNCHANGED <<listeners, initializeApp, phase, options, apps, mongo, firebase>>

\* disconnect(), from the end of the MongoDB block to the return
DB_disconnect_finish(mongoResult, f) ==
  LET hasMongo == mongoResult # Undefined
      hasFirebase == f # Undefined
      results == DB_results(hasMongo, hasMongo /\ mongoResult.success, hasFirebase, TRUE)
      errors ==
        IF hasMongo /\ ~mongoResult.success
          THEN << <<"MongoDB: ">> \o OrElse(ErrorMessage(mongoResult), <<"Disconnection failed">>) >>
          ELSE <<>>
      allDisconnected == every(results)
  IN  IF allDisconnected
        THEN [success |-> TRUE, data |-> results]
        ELSE [success |-> FALSE,
              error |-> NewError(<<"Some databases failed to disconnect: ">> \o join(errors)),
              data |-> results]

\* DB.disconnect(): with a MongoDB adapter, up to `await this.mongo.disconnect()`;
\* without one, the whole method.
DB_disconnect ==
  /\ phase = "ready"
  /\ IF mongo # Undefined
       THEN MongoDB_disconnect("DB.disconnect")
       ELSE /\ ret' = FacadeReturned("DB.disconnect",
                                     DB_disconnect_finish(Undefined, firebase), Undefined)
            /\ UNCHANGED <<listeners, initializeApp, phase, options, apps, mongo, firebase, calls>>

\* DB.disconnect(), after `await this.mongo.disconnect()`
DB_disconnect_resume ==
  \E f \in InFlight :
    /\ f.op = "DB.disconnect" /\ f.pc = "resume"
    /\ ret' = FacadeReturned("DB.disconnect", DB_disconnect_finish(f.result, firebase),
                             f.result)
    /\ calls' = Remove(calls, f)
    /\ UNCHANGED <<listeners, initializeApp, phase, options, apps, mongo, firebase>>

\* DB.getConnectionStatus()
DB_getConnectionStatus(m, f) ==
  [mongodb |-> IF m # Undefined THEN [status |-> MongoDB_getConnectionStatus(m)] ELSE Undefined,
   firebase |-> IF f # Undefined THEN [status |-> Firebase_getConnectionStatus(f)] ELSE Undefined]

\* Mutant: || instead of &&.
DB_isConnected_or(m, f) ==
  LET mongoConnected == IF m # Undefined THEN MongoDB_isConnected(m) ELSE TRUE
      firebaseConnected == IF f # Undefined THEN Firebase_isConnected(f) ELSE TRUE
  IN  mongoConnected \/ firebaseConnected

\* DB.isConnected()
DB_isConnected(m, f) ==
  LET mongoConnected == IF m # Undefined THEN MongoDB_isConnected(m) ELSE TRUE
      firebaseConnected == IF f # Undefined THEN Firebase_isConnected(f) ELSE TRUE
  IN  mongoConnected /\ firebaseConnected

\* the object `health` built by getHealthStatus()
DB_health(m, f) ==
  [mongodb |-> IF m # Undefined
                 THEN [connected |-> MongoDB_isConnected(m),
                       status |-> MongoDB_getConnectionStatus(m)]
                 ELSE Undefined,
   firebase |-> IF f # Undefined
                  THEN [connected |-> Firebase_isConnected(f),
                        status |-> Firebase_getConnectionStatus(f)]
                  ELSE Undefined,
   overall |-> DB_isConnected(m, f)]

\* DB.getHealthStatus(): no await, so the whole method is one step
DB_getHealthStatus ==
  /\ phase = "ready"
  /\ ret' = FacadeReturned("DB.getHealthStatus",
                           [success |-> TRUE, data |-> DB_health(mongo, firebase)],
                           Undefined)
  /\ UNCHANGED <<listeners, initializeApp, phase, options, apps, mongo, firebase, calls>>

-----------------------------------------------------------------------------

Init ==
  /\ phase = "new"
  /\ options \in DefaultLoggingOptions
  /\ apps = 0
  /\ initializeApp = <<>>
  /\ mongo = Undefined
  /\ firebase = Undefined
  /\ calls = EmptyBag
  /\ listeners = {}
  /\ ret = NoRet

Next ==
  \/ DB_constructor
  \/ MongoDB_connect("none")
  \/ MongoDB_connect_resolved
  \/ MongoDB_connect_rejected
  \/ MongoDB_disconnect("none")
  \/ MongoDB_disconnect_resolved
  \/ MongoDB_disconnect_rejected
  \/ ClientEmits(FALSE)
  \/ \E op \in MongoDataOps : MongoDB_dataOp(op, "none")
  \/ MongoDB_dataOp_resolved
  \/ MongoDB_dataOp_rejected
  \/ MongoDB_getCollection_call
  \/ MongoDB_legacy
  \/ Firebase_dataOp(FirebaseDataOps)
  \/ Firebase_dataOp_resolved(FirebaseDataOps)
  \/ Firebase_dataOp_rejected
  \/ DB_connect
  \/ DB_connect_resume
  \/ DB_disconnect
  \/ DB_disconnect_resume
  \/ DB_getHealthStatus

Spec == Init /\ [][Next]_vars

\* The operations of the Firebase adapter whose inputs and results are
\* spelled out: the snapshot getDocument() maps, the batch batchWrite()
\* builds, and the listeners.  (Spec has every data operation, each kept to
\* its guard, its await and the envelope it returns.)
FirebaseNext ==
  \/ DB_constructor
  \/ Firebase_dataOp({"Firebase.getDocument"})
  \/ Firebase_getDocument_resolved
  \/ Firebase_batchWrite
  \/ Firebase_dataOp_resolved({"Firebase.batchWrite"})
  \/ Firebase_dataOp_rejected
  \/ Firebase_listen
  \/ Firebase_onSnapshot
  \/ Firebase_onSnapshot_error
  \/ Firebase_unsubscribe

FirebaseSpec == Init /\ [][FirebaseNext]_vars

\* The connection of the MongoDB adapter on its own: the application connects
\* and disconnects, the driver settles the promises and emits its events,
\* each of which is recorded.
ConnectionNext ==
  \/ DB_constructor
  \/ MongoDB_connect("none")
  \/ MongoDB_connect_resolved
  \/ MongoDB_connect_rejected
  \/ MongoDB_disconnect("none")
  \/ MongoDB_disconnect_resolved
  \/ MongoDB_disconnect_rejected
  \/ ClientEmits(TRUE)

\* The driver settles every promise it handed out, and the continuation of
\* the method that awaits it then runs.
DriverSettles ==
  \/ MongoDB_connect_resolved
  \/ MongoDB_connect_rejected
  \/ MongoDB_disconnect_resolved
  \/ MongoDB_disconnect_rejected

\* Nothing else is scheduled: the adapter sets no timer and its event handlers
\* call nothing, so the only steps that are bound to happen are settlements.
ConnectionSpec == Init /\ [][ConnectionNext]_vars /\ WF_vars(DriverSettles)

\* The DB constructed with any combination of logger and enableLogging, and
\* then connected and disconnected.
InitLogging ==
  /\ phase = "new"
  /\ options \in DBOptions
  /\ apps = 0
  /\ initializeApp = <<>>
  /\ mongo = Undefined
  /\ firebase = Undefined
  /\ calls = EmptyBag
  /\ listeners = {}
  /\ ret = NoRet

LoggingSpec == InitLogging /\ [][ConnectionNext]_vars

\* ConnectionSpec with an application that calls connect() only when none of
\* its disconnect() calls is pending: a connect() that is in flight when a
\* disconnect() returns was then started before that disconnect() was called.
ConnectBeforeDisconnectNext ==
  \/ DB_constructor
  \/ /\ \A f \in InFlight : f.op # "MongoDB.disconnect"
     /\ MongoDB_connect("none")
  \/ MongoDB_connect_resolved
  \/ MongoDB_connect_rejected
  \/ MongoDB_disconnect("none")
  \/ MongoDB_disconnect_resolved
  \/ MongoDB_disconnect_rejected
  \/ ClientEmits(TRUE)

ConnectBeforeDisconnectSpec == Init /\ [][ConnectBeforeDisconnectNext]_vars

\* The MongoDB adapter on its own, used directly: its connection, the
\* client's events and its data operations.
MongoNext ==
  \/ DB_constructor
  \/ MongoDB_connect("none")
  \/ MongoDB_connect_resolved
  \/ MongoDB_connect_rejected
  \/ MongoDB_disconnect("none")
  \/ MongoDB_disconnect_resolved
  \/ MongoDB_disconnect_rejected
  \/ ClientEmits(TRUE)
  \/ \E op \in MongoDataOps : MongoDB_dataOp(op, "none")
  \/ MongoDB_dataOp_resolved
  \/ MongoDB_dataOp_rejected

MongoSpec == Init /\ [][MongoNext]_vars

\* What may touch a Firebase adapter once it exists: its data operations,
\* its listen methods with the listeners' error handlers, and the facade's
\* connect() and disconnect() with the MongoDB methods they await.
FirebaseLifeNext ==
  \/ DB_constructor
  \/ Firebase_dataOp(FirebaseDataOps)
  \/ Firebase_dataOp_resolved(FirebaseDataOps)
  \/ Firebase_dataOp_rejected
  \/ Firebase_listen
  \/ Firebase_onSnapshot_error
  \/ DB_connect
  \/ DB_connect_resume
  \/ DB_disconnect
  \/ DB_disconnect_resume
  \/ MongoDB_connect_resolved
  \/ MongoDB_connect_rejected
  \/ MongoDB_disconnect_resolved
  \/ MongoDB_disconnect_rejected

FirebaseLifeSpec == Init /\ [][FirebaseLifeNext]_vars

\* The two adapters used directly, without the facade's methods: every
\* method of each and the client's events.
AdaptersNext ==
  \/ DB_constructor
  \/ MongoDB_connect("none")
  \/ MongoDB_connect_resolved
  \/ MongoDB_connect_rejected
  \/ MongoDB_disconnect("none")
  \/ MongoDB_disconnect_resolved
  \/ MongoDB_disconnect_rejected
  \/ ClientEmits(FALSE)
  \/ \E op \in MongoDataOps : MongoDB_dataOp(op, "none")
  \/ MongoDB_dataOp_resolved
  \/ MongoDB_dataOp_rejected
  \/ MongoDB_getCollection_call
  \/ MongoDB_legacy
  \/ Firebase_dataOp(FirebaseDataOps)
  \/ Firebase_dataOp_resolved(FirebaseDataOps)
  \/ Firebase_dataOp_rejected

AdaptersSpec == Init /\ [][AdaptersNext]_vars

\* The Firebase Admin SDK of one process: a DB and any number of Firebase
\* adapters are constructed on it, in any order.
SdkNext ==
  \/ DB_constructor
  \/ Firebase_new

SdkSpec == Init /\ [][SdkNext]_vars

-----------------------------------------------------------------------------
(* Properties *)

\* The adapters the DB was configured with.
Configured == {a \in {"mongodb", "firebase"} : options[a]}

\* isConnected() of a configured adapter
AdapterConnected(a) ==
  IF a = "mongodb" THEN MongoDB_isConnected(mongo) ELSE Firebase_isConnected(firebase)

\* The step ends at an await (so it returns nothing) and adds a call
\* suspended on a driver promise, made by one of `ops`.
Suspends(ops) ==
  /\ ret'.op = "none"
  /\ calls' # calls
  /\ \E f \in BagToSet(calls') :
       f.pc = "await" /\ f.op \in ops /\ CopiesIn(f, calls') > CopiesIn(f, calls)

\* The public operations: the async methods of the two adapters and of the
\* facade (getCollection, isConnected and getConnectionStatus are synchronous
\* accessors).
Operations ==
  {"MongoDB.connect", "MongoDB.disconnect"} \cup MongoDataOps \cup LegacyOps
    \cup FirebaseDataOps \cup {"DB.connect", "DB.disconnect", "DB.getHealthStatus"}

\* C1: every public operation returns an OperationResult envelope and no
\* public call propagates an exception to its caller.
C1_NoPublicCallThrows ==
  ret.op \in Operations =>
    /\ ret.outcome = "return"
    /\ "result" \in DOMAIN ret
    /\ "success" \in DOMAIN ret.result

\* C2: a MongoDB data operation invoked while isConnected() is false returns
\* {success: false} with the error message 'Not connected to MongoDB' and
\* makes no call to the driver.  An invocation either suspends on the driver
\* promise or returns at once without a driver call: from a state where
\* isConnected() is false no step suspends a data operation, and what an
\* invocation returns is that failure.
C2_NotConnectedFails ==
  [][(mongo # Undefined /\ ~MongoDB_isConnected(mongo)) =>
       /\ ~Suspends(MongoDataOps)
       /\ (ret'.op \in MongoDataOps /\ ret'.driver = "none") =>
            /\ ret'.outcome = "return"
            /\ ret'.result.success = FALSE
            /\ ret'.result.error.message = <<"Not connected to MongoDB">>]_vars

\* a data operation was refused although the db handle is set
C2_Witness ==
  /\ ret.op \in MongoDataOps
  /\ ret.driver = "none"
  /\ ret.result.success = FALSE
  /\ ret.result.error.message = <<"Not connected to MongoDB">>
  /\ mongo.db # NULL
  /\ ~MongoDB_isConnected(mongo)

C4_ConnectFailure ==
  (ret.op = "MongoDB.connect" /\ ret.driver = "rejected" /\ ret.rejection.isError) =>
    /\ ret.result = [success |-> FALSE, error |-> ret.rejection]
    /\ mongo.connectionStatus = ERROR
    /\ ~MongoDB_isConnected(mongo)

\* connect() failed on an adapter that had been connected before
C4_Witness ==
  /\ ret.op = "MongoDB.connect"
  /\ ret.driver = "rejected"
  /\ ret.rejection.isError
  /\ ret.result.error = DriverError
  /\ mongo.connectionStatus = ERROR
  /\ mongo.db # NULL

\* C5: when client.close() resolves, MongoDB.disconnect() returns
\* {success: true}, and at return the status is DISCONNECTED, the db handle
\* is null and isConnected() is false.
C5_DisconnectSuccess ==
  (ret.op = "MongoDB.disconnect" /\ ret.driver = "resolved") =>
    /\ ret.result.success
    /\ mongo.connectionStatus = DISCONNECTED
    /\ mongo.db = NULL
    /\ ~MongoDB_isConnected(mongo)

C5_Witness ==
  /\ ret.op = "MongoDB.disconnect"
  /\ ret.driver = "resolved"
  /\ ret.result.success
  /\ mongo.connectionStatus = DISCONNECTED
  /\ mongo.db = NULL

\* C6: when client.close() rejects with an Error e, MongoDB.disconnect()
\* returns {success: false, error: e}, and neither of its two steps changes
\* the status or the db handle.
C6_DisconnectFailureFrame ==
  [][/\ (ret'.op = "MongoDB.disconnect" /\ ret'.driver = "rejected") =>
          /\ mongo' = mongo
          /\ ret'.result.success = FALSE
          /\ ret'.rejection.isError => ret'.result.error = ret'.rejection
     /\ Suspends({"MongoDB.disconnect"}) => mongo' = mongo]_vars

\* a failed disconnect() left a connected adapter connected
C6_Witness ==
  /\ ret.op = "MongoDB.disconnect"
  /\ ret.driver = "rejected"
  /\ ret.result.error = DriverError
  /\ MongoDB_isConnected(mongo)

\* C7: in both adapters, a data operation whose driver call rejects with an
\* Error e returns {success: false, error: e} with no data and leaves the
\* connection status of the adapters unchanged.
C7_DataOpFailure ==
  [][(/\ ret'.op \in MongoDataOps \cup FirebaseDataOps
      /\ ret'.driver = "rejected"
      /\ ret'.rejection.isError) =>
        /\ ret'.result = [success |-> FALSE, error |-> ret'.rejection]
        /\ "data" \notin DOMAIN ret'.result
        /\ mongo' = mongo
        /\ firebase' = firebase]_vars

\* a MongoDB operation failed in the driver with both adapters connected
C7_Witness ==
  /\ ret.op \in MongoDataOps
  /\ ret.driver = "rejected"
  /\ ret.result.error = DriverError
  /\ MongoDB_isConnected(mongo)
  /\ firebase # Undefined
  /\ Firebase_isConnected(firebase)

\* C8: DB.connect() returns success iff every configured adapter is connected:
\* the MongoDB.connect() it awaited returned success, and Firebase.isConnected()
\* is true; its data holds one boolean per configured adapter and no other key.
C8_ConnectAggregate ==
  ret.op = "DB.connect" =>
    /\ DOMAIN ret.result.data = Configured
    /\ \A a \in Configured : ret.result.data[a] \in BOOLEAN
    /\ options.mongodb => ret.result.data.mongodb = ret.mongoResult.success
    /\ options.firebase => ret.result.data.firebase = Firebase_isConnected(firebase)
    /\ ret.result.success <=>
         /\ options.mongodb => ret.mongoResult.success
         /\ options.firebase => Firebase_isConnected(firebase)

\* DB.connect() succeeded with both adapters configured
C8_Witness ==
  /\ ret.op = "DB.connect"
  /\ Configured = {"mongodb", "firebase"}
  /\ ret.result.success
  /\ ret.result.data = [mongodb |-> TRUE, firebase |-> TRUE]

\* C9: after DB.disconnect() returns success, no configured adapter reports
\* isConnected() true, so DB.isConnected() is false.
C9_DisconnectsAll ==
  (ret.op = "DB.disconnect" /\ ret.result.success) =>
    /\ \A a \in Configured : ~AdapterConnected(a)
    /\ ~DB_isConnected(mongo, firebase)

\* C10: DB.isConnected() is the conjunction of the configured adapters'
\* isConnected(), and getHealthStatus() returns success with data.overall
\* equal to DB.isConnected() and each configured adapter's entry carrying
\* that adapter's isConnected().
C10_AggregateFlag ==
  phase = "ready" =>
    /\ DB_isConnected(mongo, firebase) <=> \A a \in Configured : AdapterConnected(a)
    /\ ret.op = "DB.getHealthStatus" =>
         /\ ret.result.success
         /\ ret.result.data.overall = DB_isConnected(mongo, firebase)
         /\ options.mongodb =>
              ret.result.data.mongodb.connected = MongoDB_isConnected(mongo)
         /\ options.firebase =>
              ret.result.data.firebase.connected = Firebase_isConnected(firebase)

\* health reported with Firebase connected and MongoDB not: overall is false
C10_Witness ==
  /\ ret.op = "DB.getHealthStatus"
  /\ Configured = {"mongodb", "firebase"}
  /\ Firebase_isConnected(firebase)
  /\ ~MongoDB_isConnected(mongo)
  /\ ret.result.data.overall = FALSE
  /\ ret.result.data.firebase.connected = TRUE

\* C11: constructing a DB with neither a mongodb nor a firebase configuration
\* throws an Error with the message 'At least one database configuration
\* (mongodb or firebase) must be provided' and creates no adapter (and
\* initialises no Firebase app).
C11_NoConfigurationThrows ==
  (phase # "new" /\ ~options.mongodb /\ ~options.firebase) =>
    /\ phase = "threw"
    /\ ret.op = "DB.constructor"
    /\ ret.outcome = "throw"
    /\ ret.thrown =
         NewError(<<"At least one database configuration (mongodb or firebase) must be provided">>)
    /\ mongo = Undefined
    /\ firebase = Undefined
    /\ apps = 0
  /\ initializeApp = <<>>

C11_Witness ==
  /\ phase = "threw"
  /\ ~options.mongodb /\ ~options.firebase
  /\ ret.outcome = "throw"
  /\ ret.thrown.isError

\* C12: after the DB constructor returned, db.mongo is defined iff
\* options.mongodb was given and db.firebase is defined iff options.firebase
\* was given; when the constructor of a configured adapter throws, the DB
\* constructor throws and no DB (and no adapter) is produced.
C12_AdaptersAsConfigured ==
  /\ phase = "ready" =>
       /\ mongo # Undefined <=> options.mongodb
       /\ firebase # Undefined <=> options.firebase
  /\ (ret.op = "DB.constructor" /\ {ret.MongoClient, ret.sdk} \subseteq {"ok"}) =>
       ret.outcome = "return" /\ phase = "ready"
  /\ (ret.op = "DB.constructor" /\ ~({ret.MongoClient, ret.sdk} \subseteq {"ok"})) =>
       /\ ret.outcome = "throw"
       /\ phase = "threw"
       /\ mongo = Undefined
       /\ firebase = Undefined

\* the constructor returned a DB with both adapters
C12_Witness ==
  /\ ret.op = "DB.constructor"
  /\ ret.outcome = "return"
  /\ options.mongodb /\ options.firebase
  /\ mongo # Undefined /\ firebase # Undefined

\* The driver reported the loss of a connection that connect() had
\* established: only the serverClosed handler leaves the status DISCONNECTED
\* with the db handle set (disconnect() clears the handle).
ConnectionLost ==
  /\ mongo # Undefined
  /\ mongo.db # NULL
  /\ mongo.connectionStatus = DISCONNECTED

\* The application is calling connect(), or has called disconnect() since.
CallerStepsIn ==
  \/ \E f \in InFlight : f.op = "MongoDB.connect"
  \/ mongo # Undefined /\ mongo.db = NULL

\* C13: the MongoDB adapter reconnects automatically: after a successful
\* connect(), once the driver reports a connection loss the status eventually
\* returns to CONNECTED without the caller invoking connect() again.
C13_AutomaticReconnection ==
  ConnectionLost ~>
    \/ mongo # Undefined /\ mongo.connectionStatus = CONNECTED
    \/ CallerStepsIn

\* The methods of the MongoDB adapter.
MongoOps ==
  {"MongoDB.connect", "MongoDB.disconnect", "MongoDB.getCollection"}
    \cup MongoDataOps \cup LegacyOps

\* The step belongs to the MongoDB adapter: one of its methods suspends or
\* returns, or a handler of a client event runs (the only step after
\* construction that neither returns nor touches the suspended calls).
MongoDBStep ==
  \/ Suspends(MongoOps)
  \/ ret'.op \in MongoOps
  \/ phase = "ready" /\ calls' = calls /\ ret'.op = "none"

\* The step belongs to the Firebase adapter.
FirebaseStep == Suspends(FirebaseDataOps) \/ ret'.op \in FirebaseDataOps

\* the adapter, if there is one, has one of the five statuses
StatusInEnum(adapter) ==
  adapter # Undefined => adapter.connectionStatus \in ConnectionStatus

\* C14: each adapter keeps its own connection status, which is always one of
\* disconnected, connecting, connected, reconnecting, error; an operation or
\* driver event on one adapter never changes the other adapter's status.
C14_IndependentStatus ==
  [][/\ StatusInEnum(mongo') /\ StatusInEnum(firebase')
     /\ firebase' = firebase \/ ~MongoDBStep
     /\ mongo' = mongo \/ ~FirebaseStep]_vars

\* the driver closed the MongoDB server while Firebase stays connected
C14_Witness ==
  /\ options.mongodb /\ options.firebase
  /\ phase = "ready"
  /\ mongo.connectionStatus = DISCONNECTED
  /\ mongo.db # NULL
  /\ firebase.connectionStatus = CONNECTED

\* C15: a Firebase adapter whose constructor returned has status CONNECTED
\* and isConnected() true (and keeps them: nothing assigns its fields later);
\* when initializeApp or admin.firestore() throws, the constructor rethrows
\* that error and no adapter is produced.
C15_FirebaseConstructed ==
  /\ firebase # Undefined =>
       /\ Firebase_getConnectionStatus(firebase) = CONNECTED
       /\ Firebase_isConnected(firebase)
  /\ (ret.op = "DB.constructor" /\ ret.sdk \in {"initializeApp throws", "firestore throws"}) =>
       /\ ret.outcome = "throw"
       /\ ret.thrown = DriverError
       /\ firebase = Undefined

\* the constructor of a DB with Firebase alone returned
C15_Witness ==
  /\ ret.op = "DB.constructor"
  /\ ret.outcome = "return"
  /\ ~options.mongodb
  /\ Firebase_isConnected(firebase)

\* C16: getDocument(path) on a connected adapter returns success with data
\* null when the document does not exist, and otherwise with data holding
\* the document's stored fields plus an id field equal to the document's id,
\* for every stored document.
C16_GetDocumentData ==
  (ret.op = "Firebase.getDocument" /\ ret.driver = "resolved") =>
    /\ ret.result.success
    /\ ~ret.snapshot.exists => ret.result.data = Null
    /\ ret.snapshot.exists =>
         /\ DOMAIN ret.result.data = DOMAIN ret.snapshot.data \cup {"id"}
         /\ ret.result.data.id = ret.snapshot.id
         /\ \A k \in DOMAIN ret.snapshot.data \ {"id"} :
              ret.result.data[k] = ret.snapshot.data[k]

\* C17: batchWrite(operations) queues exactly one batch call per operation, in
\* the given order and of the matching type, then calls commit exactly once;
\* it returns success iff commit resolved; commit is never called when
\* queuing an operation throws (nor when the adapter is not connected: then
\* the method returns before it creates the batch).
C17_BatchWrite ==
  /\ "batchWrite" \in DOMAIN ret =>
       LET b == ret.batchWrite
       IN  /\ b.threw =>
                /\ b.commits = 0
                /\ Len(b.queued) <= Len(b.operations)
                /\ ret.op = "Firebase.batchWrite" /\ ~ret.result.success
           /\ ~b.threw =>
                /\ b.commits = 1
                /\ Len(b.queued) = Len(b.operations)
                /\ \E f \in InFlight : f.op = "Firebase.batchWrite" /\ f.pc = "await"
           /\ \A i \in 1..Len(b.queued) : b.queued[i].method = b.operations[i]
  /\ ret.op = "Firebase.batchWrite" =>
       /\ ret.result.success <=> ret.driver = "resolved"
       /\ ret.driver \in {"resolved", "rejected"} \/ "batchWrite" \in DOMAIN ret

\* a set and a delete were queued in that order and committed
C17_Witness ==
  /\ "batchWrite" \in DOMAIN ret
  /\ ret.batchWrite.operations = <<"set", "delete">>
  /\ ret.batchWrite.queued = <<[method |-> "set"], [method |-> "delete"]>>
  /\ ret.batchWrite.commits = 1

\* C18: listenDocument and listenCollection never throw and always return an
\* unsubscribe function: the driver's own when the listener was registered,
\* and a no-op when registration throws (or the adapter is not connected), in
\* which case no listener is registered; a callback is only ever invoked for
\* a registered listener.
C18_ListenNeverThrows ==
  [][/\ ret'.op \in ListenOps =>
          /\ ret'.outcome = "return"
          /\ IF ret'.sdk = "registered"
               THEN \E l \in listeners' \ listeners :
                      /\ listeners' = listeners \cup {l}
                      /\ l.op = ret'.op
                      /\ ret'.value = DriverUnsubscribe(l)
               ELSE /\ listeners' = listeners
                    /\ ret'.value = NoOp
     /\ ret'.op = "callback" => ret'.listener \in listeners]_vars

\* registering a document listener threw while a collection listener is on
C18_Witness ==
  /\ ret.op = "Firebase.listenDocument"
  /\ ret.sdk = "throws"
  /\ ret.value = NoOp
  /\ \E l \in listeners : l.op = "Firebase.listenCollection"

\* C19: constructing a DB with enableLogging: true and no logger fails: the
\* constructor throws an error.
C19_EnableLoggingNeedsLogger ==
  (ret.op = "DB.constructor" /\ ~options.logger /\ options.enableLogging = "true") =>
    ret.outcome = "throw"

\* C20: logging is silent unless enabled: a DB constructed with no logger and
\* no enableLogging produces no log output, one constructed with a custom
\* logger and enableLogging: false never invokes that logger, and with
\* enableLogging: true the custom logger is invoked.
C20_SilentUnlessEnabled ==
  ret.op = "DB.constructor" =>
    /\ (~options.logger /\ options.enableLogging = "undefined") => ret.logged = <<>>
    /\ (options.logger /\ options.enableLogging = "false") => ret.logged = <<>>
    /\ (options.logger /\ options.enableLogging = "true" /\ ret.outcome = "return") =>
         ret.logger = "custom" /\ ret.logged # <<>>

\* A handler of the client event `event` ran in this step.
Handled(event) == ret'.op = "none" /\ "event" \in DOMAIN ret' /\ ret'.event = event

\* C21: the MongoDB adapter's status is a passive flag of the driver's
\* lifecycle events: a new adapter is DISCONNECTED (with no db handle);
\* serverOpening sets CONNECTING, serverClosed DISCONNECTED, error ERROR,
\* whatever the status was; connectionPoolCreated and connectionPoolClosed
\* leave the status as it is; no event changes the db handle.
C21_PassiveStatusFlag ==
  [][/\ (ret'.op = "DB.constructor" /\ mongo' # Undefined) => mongo' = MongoDB_new
     /\ \A event \in ClientEvents :
          Handled(event) =>
            /\ mongo'.db = mongo.db
            /\ mongo'.reconnectAttempts = mongo.reconnectAttempts
            /\ mongo'.connectionStatus =
                 CASE event = "serverOpening" -> CONNECTING
                   [] event = "serverClosed" -> DISCONNECTED
                   [] event = "error" -> ERROR
                   [] OTHER -> mongo.connectionStatus]_vars

\* the pool of a connected adapter was closed: the adapter still reports
\* CONNECTED
C21_Witness ==
  /\ ret.op = "none" /\ "event" \in DOMAIN ret
  /\ ret.event = "connectionPoolClosed"
  /\ mongo.connectionStatus = CONNECTED
  /\ mongo.db # NULL

\* the number of entries of `errors` that start with `prefix` in a message
\* built by errors.join(', ')
Entries(message, prefix) ==
  Cardinality({i \in DOMAIN message : message[i] = prefix})

\* C22: DB.connect() and DB.disconnect() never throw and never short-circuit:
\* when the MongoDB adapter's method returned a failure, the facade still
\* evaluates Firebase and returns success false, with a boolean in data for
\* every configured adapter (false for MongoDB) and an error message holding
\* one 'MongoDB: ...' entry, and one 'Firebase: ...' entry iff Firebase
\* failed too.
C22_NoShortCircuit ==
  ret.op \in {"DB.connect", "DB.disconnect"} =>
    /\ ret.outcome = "return"
    /\ (ret.mongoResult # Undefined /\ ~ret.mongoResult.success) =>
         /\ ret.result.success = FALSE
         /\ DOMAIN ret.result.data = Configured
         /\ ret.result.data.mongodb = FALSE
         /\ options.firebase =>
              ret.result.data.firebase =
                IF ret.op = "DB.connect" THEN Firebase_isConnected(firebase) ELSE TRUE
         /\ Entries(ret.result.error.message, "MongoDB: ") = 1
         /\ Entries(ret.result.error.message,
                    "Firebase: Connection failed during initialization")
              = IF options.firebase /\ ~ret.result.data.firebase THEN 1 ELSE 0

\* DB.connect() with both adapters: the driver refused the MongoDB connection
\* and Firebase is reported connected all the same
C22_Witness ==
  /\ ret.op = "DB.connect"
  /\ ret.mongoResult # Undefined
  /\ ret.mongoResult.success = FALSE
  /\ ret.result.success = FALSE
  /\ ret.result.data = [mongodb |-> FALSE, firebase |-> TRUE]
  /\ ret.result.error.message =
       <<"Some databases failed to connect: ", "MongoDB: ">> \o DriverError.message

\* the calls of admin.initializeApp that returned (and registered their app)
Registered(called) == {i \in DOMAIN called : ~called[i].threw}

\* C23 as stated: across any sequence of Firebase adapter constructions in one
\* process, admin.initializeApp is called only when no app is registered,
\* hence at most once; an adapter constructed when an app is registered makes
\* no call, so the options passed to it are not applied.
C23_InitializeAppAtMostOnce ==
  [][/\ initializeApp' # initializeApp => apps = 0
     /\ Len(initializeApp') <= 1
     /\ apps > 0 => initializeApp' = initializeApp]_vars

\* C23, amended: admin.initializeApp is called only when no app is
\* registered, hence never while one is: of the constructors' calls at most
\* one returns (the library unregisters nothing), and an app is registered
\* exactly when one did, while a call that throws registers none and the next
\* constructor calls again; an adapter constructed when an app is registered
\* makes no call and registers nothing, so the options passed to it are not
\* applied.
C23_InitializeAppOnlyUnregistered ==
  [][/\ initializeApp' # initializeApp =>
          /\ apps = 0
          /\ Len(initializeApp') = Len(initializeApp) + 1
          /\ SubSeq(initializeApp', 1, Len(initializeApp)) = initializeApp
     /\ Cardinality(Registered(initializeApp')) <= 1
     /\ apps' = Cardinality(Registered(initializeApp'))
     /\ apps > 0 => (initializeApp' = initializeApp /\ apps' = apps)]_vars

\* an adapter was constructed with the options of project B after the SDK
\* had been initialised for project A: it is returned, on A's app
C23_Witness ==
  /\ ret.op = "Firebase.constructor"
  /\ ret.options = "projectB"
  /\ ret.outcome = "return"
  /\ apps = 1
  /\ initializeApp = <<InitializeAppCall("projectA", "ok")>>

\* C24: in every reachable state of the MongoDB adapter, under any
\* interleaving of connect(), disconnect(), data operations and driver
\* events, the status CONNECTED implies that the db handle is set; hence
\* isConnected() is equivalent to the status being CONNECTED.
C24_ConnectedHasDb ==
  mongo # Undefined =>
    /\ mongo.connectionStatus = CONNECTED => mongo.db # NULL
    /\ MongoDB_isConnected(mongo) <=> (MongoDB_getConnectionStatus(mongo) = CONNECTED)

\* a connect() that was in flight when disconnect() returned has resolved
\* since: the adapter is CONNECTED, with the db handle set again
C24_Witness ==
  /\ ret.op = "MongoDB.connect"
  /\ ret.result.success
  /\ mongo.connectionStatus = CONNECTED
  /\ mongo.db # NULL
  /\ \E f \in InFlight : f.op = "MongoDB.disconnect" /\ f.pc = "await"

\* C25: once MongoDB.disconnect() has returned success, isConnected() stays
\* false until a connect() started after that disconnect succeeds.  A
\* connect() takes two steps, its call and its continuation, so the step
\* that follows the return of a successful disconnect() cannot be the
\* success of a connect() started after it: that step leaves isConnected()
\* false, and so a connect() that was in flight when disconnect() was called
\* cannot leave the adapter CONNECTED after the client was closed.
C25_DisconnectedUntilNewConnect ==
  [][(/\ ret.op = "MongoDB.disconnect"
      /\ ret.result.success
      /\ ~MongoDB_isConnected(mongo)) =>
       ~MongoDB_isConnected(mongo')]_vars

\* C26 as stated: a MongoDB data operation returns {success: true} only if
\* isConnected() is true at the moment it returns, so that a disconnect() or
\* a serverClosed/error event taking effect during the await makes the
\* operation report failure.
C26_SuccessOnlyWhileConnected ==
  (ret.op \in MongoDataOps /\ ret.outcome = "return" /\ ret.result.success) =>
    MongoDB_isConnected(mongo)

\* C26, amended: a MongoDB data operation returns {success: true} only if
\* isConnected() was true when it was invoked (it reaches the driver only
\* then) and its driver call resolved; the step that returns does not look at
\* the connection, whatever happened to it during the await.
C26_SuccessOnlyIfInvokedConnected ==
  [][/\ Suspends(MongoDataOps) => MongoDB_isConnected(mongo)
     /\ (ret'.op \in MongoDataOps /\ ret'.outcome = "return" /\ ret'.result.success) =>
          /\ ret'.driver = "resolved"
          /\ Awaiting(ret'.op, ret'.caller) \in InFlight
          /\ mongo' = mongo]_vars

\* an operation returned success although the server was closed while it was
\* awaiting the driver
C26_Witness ==
  /\ ret.op \in MongoDataOps
  /\ ret.result.success
  /\ ret.driver = "resolved"
  /\ mongo.connectionStatus = DISCONNECTED
  /\ mongo.db # NULL

\* The step takes the MongoDB adapter's status into CONNECTED.
BecomesConnected ==
  /\ mongo' # Undefined
  /\ mongo'.connectionStatus = CONNECTED
  /\ mongo = Undefined \/ mongo.connectionStatus # CONNECTED

GuardTaken ==
  \/ /\ ret.op \in FirebaseDataOps
     /\ ret.driver = "none"
     /\ ret.result.error.message = <<"Firebase not initialized">>
  \/ ret.op \in ListenOps /\ ret.sdk = "none"

WellFormed(result) == ("error" \in DOMAIN result) <=> (result.success = FALSE)

\* C29: every OperationResult returned by an operation of an adapter or of
\* the facade is well formed: its error field is set if and only if success
\* is false, in every connection state and for every driver outcome; so is
\* the result of an adapter's method that the facade is about to read.
C29_WellFormedResult ==
  /\ "result" \in DOMAIN ret => WellFormed(ret.result)
  /\ \A f \in InFlight : f.pc = "resume" => WellFormed(f.result)

\* DB.disconnect() failed: the envelope carries the error and the data
C29_Witness ==
  /\ ret.op = "DB.disconnect"
  /\ ret.result.success = FALSE
  /\ "error" \in DOMAIN ret.result
  /\ ret.result.data.mongodb = FALSE
  /\ ret.mongoResult.error = DriverError

====
